---- MODULE Spec2Model ----
(***************************************************************************)
(* Model of the ubersmith client library's request/response pipeline:     *)
(*   ubersmith/api.py            RequestHandler, BaseResponse and friends  *)
(*   ubersmith/calls/__init__.py BaseCall (validate / render / clean)      *)
(* One step of the model is one iteration of the retry loop of            *)
(* RequestHandler.process_request (together with everything the code runs *)
(* up to the next HTTP exchange), or one whole call of a method that does  *)
(* no HTTP exchange.                                                       *)
(***************************************************************************)
EXTENDS Integers, Sequences, FiniteSets, TLC

VARIABLES
    handler,    \* the RequestHandler object: construction phase, METHODS, version
    req,        \* the activation of process_request: caller, method, loop index i
    log,        \* HTTP requests sent and sleeps done by the current operation
    initCalls,  \* methods __init__ has passed to process_request, in order
    call,       \* the BaseCall object: class attributes, request_data, response
    last,       \* how the most recent operation ended (return value or exception)
    maps,       \* a DictResponse, a plain dict of the same data, and what each returned
    ints,       \* an IntResponse operation: operands, its result, the bare int's result
    heap,       \* response objects by identity (BaseResponse and _from_cleaned)
    dflt,       \* api._DEFAULT_REQUEST_HANDLER and the last use of it
    index,      \* the MethodIndex object
    files,      \* the index directory: schema file name (version) -> index data
    gen,        \* the activation of MethodIndex.generate
    warned      \* warnings emitted by the current operation

vars == <<handler, req, log, initCalls, call, last,
          maps, ints, heap, dflt, index, files, gen, warned>>

\* State of the response wrappers, of the default handler, of the method index.
wrapVars == <<maps, ints, heap>>
indexVars == <<index, files, gen, warned>>
otherVars == <<maps, ints, heap, dflt, index, files, gen, warned>>

----------------------------------------------------------------------------
(* Program constants *)

\* api.py:101  attempts = 3
attempts == 3

\* api.py:110  time.sleep(2)
RetryDelay == 2

\* api.py:123-124
MaintenanceMessage ==
    "We are currently undergoing maintenance, please check back shortly."

JSON == "application/json"

\* api.py:75
InitialMethods == {"uber.method_list"}

----------------------------------------------------------------------------
(* Decoded payloads: the value of the envelope's data field.  kind is the  *)
(* runtime type; n, s, m hold the value of an int / str / dict payload.    *)

EmptyMap == [k \in {} |-> ""]

PNull == [kind |-> "NoneType", n |-> 0, s |-> "", m |-> EmptyMap]
PInt(n) == [kind |-> "int", n |-> n, s |-> "", m |-> EmptyMap]
PStr(s) == [kind |-> "str", n |-> 0, s |-> s, m |-> EmptyMap]
PBool(b) == [kind |-> "bool", n |-> IF b THEN 1 ELSE 0, s |-> "", m |-> EmptyMap]
PDict(m) == [kind |-> "dict", n |-> 0, s |-> "", m |-> m]

\* What the remote service may list: with and without uber.system_info.
FullMethodList ==
    [k \in {"uber.method_list", "uber.system_info", "client.get", "client.count"}
        |-> "description"]
OldMethodList ==
    [k \in {"uber.method_list", "client.get"} |-> "description"]
SystemInfo == [k \in {"version", "latest_version"} |-> IF k = "version" THEN "4.6" ELSE "5.0"]

\* Method names a caller may ask for ("bogus.call" is never listed).
MethodNames ==
    {"uber.method_list", "uber.system_info", "client.get", "client.count", "bogus.call"}

----------------------------------------------------------------------------
(* Transport responses (requests.Response): the content-type header, whether *)
(* the body contains the text 'Updating Token', whether the body decodes as  *)
(* JSON, and the decoded envelope.                                           *)

Transport(ctype, token, decodes, status, code, msg, data) ==
    [ctype |-> ctype, token |-> token, decodes |-> decodes, status |-> status,
     data |-> data, error_code |-> code, error_message |-> msg]

JsonOK(data) == Transport(JSON, FALSE, TRUE, TRUE, 0, "", data)
JsonErr(code, msg) == Transport(JSON, FALSE, TRUE, FALSE, code, msg, PNull)
Html(ctype, token) == Transport(ctype, token, FALSE, FALSE, 0, "", PNull)

NoTransport == Transport("", FALSE, FALSE, FALSE, 0, "", PNull)

Responses ==
    { JsonOK(PDict(FullMethodList)),
      JsonOK(PDict(OldMethodList)),
      JsonOK(PDict(SystemInfo)),
      JsonOK(PInt(5)),
      JsonOK(PStr("42")),
      JsonOK(PBool(TRUE)),
      \* a JSON answer whose body happens to contain the marker text
      Transport(JSON, TRUE, TRUE, TRUE, 0, "", PStr("Updating Token")),
      JsonErr(1, MaintenanceMessage),
      JsonErr(1, "Invalid login or password."),
      JsonErr(3, MaintenanceMessage),
      \* status=false under a content-type that is not exactly application/json
      Transport("application/json; charset=utf-8", FALSE, TRUE, FALSE, 3, "denied", PNull),
      Html("text/html", TRUE),
      Html("text/html; charset=UTF-8", TRUE),
      Html("text/html", FALSE),
      Transport("application/pdf", FALSE, FALSE, FALSE, 0, "", PNull) }

\* api.py:133  'text/html' in response.headers.get('content-type', '')
ContainsTextHtml(ctype) == ctype \in {"text/html", "text/html; charset=UTF-8"}

\* The decoded JSON body, response.json().
Body(r) ==
    [status |-> r.status, data |-> r.data, error_code |-> r.error_code,
     error_message |-> r.error_message]

NoBody == Body(NoTransport)

----------------------------------------------------------------------------
(* Response objects (BaseResponse and its subclasses) *)

Wrapper(cls, r, hasCleaned, cleaned) ==
    [cls |-> cls, hasCleaned |-> hasCleaned, cleaned |-> cleaned, response |-> r]

\* Python's None where a response object is expected.
None == Wrapper("NoneType", NoTransport, FALSE, PNull)

\* api.py:175-176  BaseResponse.__init__
BaseResponse(r) == Wrapper("BaseResponse", r, FALSE, PNull)

\* api.py:436  FileResponse(response)
FileResponse(r) == Wrapper("FileResponse", r, FALSE, PNull)

\* api.py:178-182  cls._from_cleaned(response, cleaned)
from_cleaned(cls, resp, cleaned) == Wrapper(cls, resp.response, TRUE, cleaned)

\* api.py:196-198  BaseResponse._type
type_of(resp) == resp.response.ctype

\* utils.ObjDict(data): the wrapped value keeps the payload's runtime type.
ObjDict(data) == data

\* api.py:188-194  BaseResponse._data ; api.py:441-443 FileResponse._data
\* [ok |-> FALSE] stands for the exception response.json() raises on a body
\* that is not JSON.
data_of(resp) ==
    IF resp.cls = "FileResponse"
    THEN [ok |-> TRUE, exc |-> "", value |-> PStr("<content>")]
    ELSE IF resp.hasCleaned
    THEN [ok |-> TRUE, exc |-> "", value |-> ObjDict(resp.cleaned)]
    ELSE IF resp.response.decodes
    THEN [ok |-> TRUE, exc |-> "", value |-> ObjDict(resp.response.data)]
    ELSE [ok |-> FALSE, exc |-> "ValueError", value |-> PNull]

----------------------------------------------------------------------------
(* Exceptions *)

\* ubersmith.exceptions: MaintenanceResponse and UpdatingTokenResponse are
\* kinds of ResponseError; RequestError and ValidationError are not.
IsResponseError(exc) ==
    exc \in {"ResponseError", "MaintenanceResponse", "UpdatingTokenResponse"}

\* How an operation ended: outcome is "returned" or the exception's class.
Outcome(op, outcome, value, body) ==
    [value |-> value, op |-> op, outcome |-> outcome, exc_response |-> body]

----------------------------------------------------------------------------
(* Results of method calls; the wrappers and the default handler before use *)

\* What one method call gave back: a value, None, or a raised exception.
Ret(value) == [exc |-> "", value |-> value, none |-> FALSE]
RetNone == [exc |-> "", value |-> "", none |-> TRUE]
Raise(exc) == [exc |-> exc, value |-> "", none |-> FALSE]

NoMaps ==
    [op |-> "none", wrapped |-> None, plain |-> EmptyMap,
     wret |-> RetNone, pret |-> RetNone]
NoInts ==
    [op |-> "none", wrapped |-> None, wret |-> RetNone,
     other |-> 0, iret |-> RetNone]
\* No response object built yet.
NoObjects == [objs |-> <<>>, raw |-> {}, subst |-> {}]
\* The module's default handler (handler), the last use of it (op, arg,
\* outcome, value), the handler of the call object built last (call_handler)
\* and the handler most recently set with success (set).
Default(current, op, arg, outcome, value, call_handler, set) ==
    [handler |-> current, value |-> value, op |-> op, outcome |-> outcome,
     arg |-> arg, call_handler |-> call_handler, set |-> set]
NoDefault == Default("None", "none", "None", "returned", "None", "None", "None")

----------------------------------------------------------------------------
(* RequestHandler.process_request *)

\* What process_request hands back to its caller: outcome is "returned" or
\* the class of the exception raised.
Result(outcome, value, body) ==
    [value |-> value, outcome |-> outcome, exc_response |-> body]

Idle == [active |-> FALSE, caller |-> "none", method |-> "", i |-> 0, act |-> 0]

Activation(caller, method, act, active, i) ==
    [active |-> active, caller |-> caller, method |-> method, i |-> i, act |-> act]

RequestEv(method, act, r) ==
    [response |-> r, method |-> method, act |-> act, ev |-> "request", secs |-> 0]
SleepEv(method, act, secs) ==
    [response |-> NoTransport, method |-> method, act |-> act, ev |-> "sleep", secs |-> secs]

\* Mutant of validate_request_method: the membership test is skipped.
validate_request_method_skipped(METHODS, method) == TRUE

\* api.py:143-146  FALSE: raise RequestError
validate_request_method(METHODS, method) == method \in METHODS

\* Mutant of is_token_response: every HTML page counts, marker or not.
is_token_response_any_html(r) == ContainsTextHtml(r.ctype)

\* api.py:131-134
is_token_response(r) == ContainsTextHtml(r.ctype) /\ r.token

\* Mutant of loop_body: gives up one attempt early (i < attempts - 2).
loop_body_raise_early(i, r) ==
    IF ContainsTextHtml(r.ctype) /\ r.token
    THEN IF i < attempts - 2
         THEN [sleep |-> RetryDelay, next |-> "continue"]
         ELSE [sleep |-> 0, next |-> "raise"]
    ELSE [sleep |-> 0, next |-> "break"]

\* Mutant of loop_body: sleeps before the last attempt only.
loop_body_late_sleep(i, r) ==
    IF ContainsTextHtml(r.ctype) /\ r.token
    THEN IF i < attempts - 1
         THEN [sleep |-> IF i = attempts - 2 THEN RetryDelay ELSE 0,
               next |-> "continue"]
         ELSE [sleep |-> 0, next |-> "raise"]
    ELSE [sleep |-> 0, next |-> "break"]

\* api.py:107-114  what one iteration of the retry loop does with the response:
\* sleep and "continue", "raise" UpdatingTokenResponse, or "break".
\* sleep is the number of seconds slept (0: no sleep).
loop_body(i, r) ==
    IF is_token_response(r)
    THEN IF i < attempts - 1
         THEN [sleep |-> RetryDelay, next |-> "continue"]
         ELSE [sleep |-> 0, next |-> "raise"]
    ELSE [sleep |-> 0, next |-> "break"]

\* Mutant of after_loop: any([...]) in place of all([...]).
after_loop_any(r) ==
    IF r.ctype = JSON /\ ~r.status
    THEN IF r.error_code = 1 \/ r.error_message = MaintenanceMessage
         THEN Result("MaintenanceResponse", None, Body(r))
         ELSE Result("ResponseError", None, Body(r))
    ELSE Result("returned", BaseResponse(r), NoBody)

\* api.py:116-129  the code after the loop
after_loop(r) ==
    IF r.ctype = JSON
    THEN IF ~r.decodes
         THEN Result("ValueError", None, NoBody)
         ELSE IF ~r.status
         THEN IF r.error_code = 1 /\ r.error_message = MaintenanceMessage
              THEN Result("MaintenanceResponse", None, Body(r))
              ELSE Result("ResponseError", None, Body(r))
         ELSE Result("returned", BaseResponse(r), NoBody)
    ELSE Result("returned", BaseResponse(r), NoBody)

----------------------------------------------------------------------------
(* RequestHandler.__init__ *)

NoHandler ==
    [METHODS |-> {}, state |-> "none", version |-> "", latest_version |-> "",
     error |-> ""]

Handler(state, METHODS, version, latest, error) ==
    [METHODS |-> METHODS, state |-> state, version |-> version,
     latest_version |-> latest, error |-> error]

\* dict.get(key, default)
Get(m, key, default) == IF key \in DOMAIN m THEN m[key] ELSE default

\* An exception leaves __init__: no handler object comes to exist.
ConstructFails(exc, body) ==
    /\ handler' = Handler("failed", {}, "", "", exc)
    /\ last' = Outcome("__init__", exc, None, body)

\* api.py:79-82  try: system_info = process_request(...)._data
\*               except ResponseError: system_info = dict()
\* o is how process_request('uber.system_info') ended.
try_system_info(o) ==
    IF o.outcome = "returned"
    THEN data_of(o.value)
    ELSE IF IsResponseError(o.outcome)
    THEN [ok |-> TRUE, exc |-> "", value |-> PDict(EmptyMap)]
    ELSE [ok |-> FALSE, exc |-> o.outcome, value |-> PNull]

\* api.py:79-84  __init__ once process_request('uber.system_info') has ended
InitAfterSystemInfo(o) ==
    LET t == try_system_info(o) IN
    /\ req' = [req EXCEPT !.active = FALSE]
    /\ UNCHANGED <<initCalls, call>>
    /\ UNCHANGED indexVars
    /\ IF ~t.ok
       THEN ConstructFails(t.exc, o.exc_response)
       ELSE IF t.value.kind # "dict"
       THEN ConstructFails("AttributeError", NoBody)
       ELSE /\ handler' = Handler("ready", handler.METHODS,
                                   Get(t.value.m, "version", "Unknown"),
                                   Get(t.value.m, "latest_version", "Unknown"), "")
            /\ last' = Outcome("__init__", "returned", None, NoBody)

\* api.py:76-80  __init__ once process_request('uber.method_list') has ended:
\* METHODS.update(..._data), then the call of process_request('uber.system_info')
\* up to its first HTTP exchange.
InitAfterMethodList(o) ==
    LET d == data_of(o.value) IN
    /\ UNCHANGED call
    /\ UNCHANGED indexVars
    /\ IF o.outcome # "returned"
       THEN /\ ConstructFails(o.outcome, o.exc_response)
            /\ req' = [req EXCEPT !.active = FALSE]
            /\ UNCHANGED initCalls
       ELSE IF ~d.ok \/ d.value.kind # "dict"
       THEN /\ ConstructFails(IF ~d.ok THEN d.exc ELSE "TypeError", NoBody)
            /\ req' = [req EXCEPT !.active = FALSE]
            /\ UNCHANGED initCalls
       ELSE LET M == handler.METHODS \cup DOMAIN d.value.m IN
            /\ initCalls' = Append(initCalls, "uber.system_info")
            /\ IF validate_request_method(M, "uber.system_info")
               THEN /\ handler' = Handler("info", M, "", "", "")
                    /\ req' = Activation("init_info", "uber.system_info", 2, TRUE, 0)
                    /\ last' = Outcome("__init__", "pending", None, NoBody)
               ELSE \* RequestError is no ResponseError: it leaves __init__
                    /\ req' = Activation("init_info", "uber.system_info", 2, FALSE, 0)
                    /\ LET t == try_system_info(Result("RequestError", None, NoBody)) IN
                       IF t.ok
                       THEN /\ handler' = Handler("ready", M, "Unknown", "Unknown", "")
                            /\ last' = Outcome("__init__", "returned", None, NoBody)
                       ELSE ConstructFails(t.exc, NoBody)

\* api.py:54-76  RequestHandler(base_url, ...) up to the first HTTP exchange
Construct ==
    /\ handler.state \in {"none", "failed"}
    /\ ~req.active
    /\ log' = <<>>
    /\ initCalls' = <<"uber.method_list">>
    /\ UNCHANGED call
    /\ UNCHANGED otherVars
    /\ IF validate_request_method(InitialMethods, "uber.method_list")
       THEN /\ handler' = Handler("listing", InitialMethods, "", "", "")
            /\ req' = Activation("init_list", "uber.method_list", 1, TRUE, 0)
            /\ last' = Outcome("__init__", "pending", None, NoBody)
       ELSE /\ req' = Activation("init_list", "uber.method_list", 1, FALSE, 0)
            /\ ConstructFails("RequestError", NoBody)

----------------------------------------------------------------------------
(* MethodIndex (index/__init__.py)                                          *)

\* Versions the remote service reports and schema files are named after.
Versions == {"4.6", "4.10", "5.0"}

\* index/__init__.py:21-24  "%s.json" % version
format_name(v) == v \o ".json"

\* index/__init__.py:38, 55  name.rpartition('.')[0]
stem(name) == CHOOSE v \in Versions : format_name(v) = name

\* index/__init__.py:55  tuple(map(int, stem.split('.')))
version_key(v) ==
    CASE v = "4.6" -> <<4, 6>>
      [] v = "4.10" -> <<4, 10>>
      [] v = "5.0" -> <<5, 0>>

\* Python's ordering of tuples of ints.
TupleLess(a, b) ==
    \/ \E i \in 1..Len(a) :
          /\ i <= Len(b)
          /\ a[i] < b[i]
          /\ \A j \in 1..(i - 1) : a[j] = b[j]
    \/ /\ Len(a) < Len(b)
       /\ \A j \in 1..Len(a) : a[j] = b[j]

\* index/__init__.py:46-49  the schema files of the index directory
get_available_indexes(dir) == DOMAIN dir

\* index/__init__.py:51-57  sorted(..., key=..., reverse=True)[0]
get_latest_index(dir) ==
    IF get_available_indexes(dir) = {}
    THEN Raise("IndexError")
    ELSE Ret(CHOOSE f \in get_available_indexes(dir) :
                \A g \in get_available_indexes(dir) \ {f} :
                    TupleLess(version_key(stem(g)), version_key(stem(f))))

\* A MethodIndex object; has_index_name tells whether self.index_name has
\* been assigned yet.
MethodIndex(exists, wanted, has_index_name, index_name, index_data) ==
    [exists |-> exists, wanted |-> wanted, has_index_name |-> has_index_name,
     index_name |-> index_name, index_data |-> index_data]

NoIndex == MethodIndex(FALSE, "", FALSE, "", EmptyMap)

\* index/__init__.py:34-39  the version property
MethodIndex_version(self) ==
    IF ~self.has_index_name
    THEN Raise("AttributeError")
    ELSE IF self.index_name # ""
    THEN Ret(stem(self.index_name))
    ELSE Ret("Unknown")

\* What a method gives that may warn: its result and the warnings emitted.
Warned(ret, warnings) == [ret |-> ret, warnings |-> warnings]

\* index/__init__.py:59-68  the argument of warnings.warn is evaluated, and
\* may raise, before the warning is emitted.
get_index_name(self, dir) ==
    IF self.wanted \in get_available_indexes(dir)
    THEN Warned(Ret(self.wanted), <<>>)
    ELSE LET v == MethodIndex_version(self) IN
         IF v.exc # ""
         THEN Warned(v, <<>>)
         ELSE Warned(get_latest_index(dir), <<"requested version not available">>)

\* index/__init__.py:26-32  MethodIndex(handler) for a handler reporting
\* version; the object exists when __init__ returns.
MethodIndex_init(version, dir) ==
    LET self == MethodIndex(FALSE, format_name(version), FALSE, "", EmptyMap)
        name == get_index_name(self, dir)
    IN  IF name.ret.exc # ""
        THEN Warned(Raise(name.ret.exc), name.warnings)
        ELSE Warned(Ret(MethodIndex(TRUE, self.wanted, TRUE, name.ret.value,
                                    dir[name.ret.value])),
                    name.warnings)

\* The activation of MethodIndex.generate: todo are the methods still to be
\* queried, index_data the index built so far, slept the calls of
\* sleep(delay), answered the methods whose query handed back its data,
\* result how generate ended.
Generation(active, force, todo, index_data, slept, answered, result) ==
    [active |-> active, index_data |-> index_data, force |-> force, todo |-> todo,
     slept |-> slept, answered |-> answered, result |-> result]

NoGen == Generation(FALSE, FALSE, <<>>, EmptyMap, 0, {}, "none")

\* The order in which the keys of a decoded JSON object are iterated.
KeyOrder ==
    <<"uber.method_list", "uber.method_get", "client.get", "description", "output">>
keys_in_order(m) ==
    LET RECURSIVE pick(_)
        pick(i) == IF i > Len(KeyOrder) THEN <<>>
                   ELSE (IF KeyOrder[i] \in DOMAIN m THEN <<KeyOrder[i]>> ELSE <<>>)
                        \o pick(i + 1)
    IN  pick(1)

\* index/__init__.py:117  method.partition('.')[0]
module_of(method) ==
    CASE method \in {"uber.method_list", "uber.method_get"} -> "uber"
      [] method = "client.get" -> "client"
      [] OTHER -> method

\* Mutant of generate_skips: the force flag is not looked at.
generate_skips_always(exists, force) == exists

\* index/__init__.py:91-98  the existing file ends generate unless force is set
generate_skips(exists, force) == exists /\ ~force

\* index/__init__.py:119-120  the body of the try block up to the pop:
\* o is how process_request('uber.method_get', ...) ended.
try_method_data(o) ==
    IF o.outcome # "returned"
    THEN Raise(o.outcome)
    ELSE LET d == data_of(o.value) IN
         IF ~d.ok THEN Raise(d.exc)
         ELSE IF d.value.kind # "dict" THEN Raise("AttributeError")
         ELSE IF "output" \notin DOMAIN d.value.m THEN Raise("KeyError")
         ELSE Ret([k \in DOMAIN d.value.m \ {"output"} |-> d.value.m[k]])

\* index/__init__.py:119  process_request(...)._data was obtained
answers(o) == o.outcome = "returned" /\ data_of(o.value).ok

\* index/__init__.py:122-125  index_data[module][method] = method_data
index_put(index_data, method, method_data) ==
    LET module == module_of(method)
        old == IF module \in DOMAIN index_data THEN index_data[module] ELSE EmptyMap
    IN  [g \in DOMAIN index_data \cup {module} |->
            IF g = module
            THEN [k \in DOMAIN old \cup {method} |->
                     IF k = method THEN method_data ELSE old[k]]
            ELSE index_data[g]]

\* index/__init__.py:135-136  json.dump(index_data, f) on the version's file
written(dir, name, index_data) ==
    [f \in DOMAIN dir \cup {name} |-> IF f = name THEN index_data ELSE dir[f]]

\* generate ends: by an exception, by return False, or by return cls(handler).
GenerateEnds(g, result) ==
    /\ gen' = [g EXCEPT !.active = FALSE, !.result = result]
    /\ req' = [req EXCEPT !.active = FALSE]
    /\ last' = Outcome("generate", result, None, NoBody)

\* index/__init__.py:110-141  generate from the top of the loop over the
\* methods up to the next HTTP exchange, or to its end.
GenerateLoop(g, w) ==
    /\ UNCHANGED <<handler, initCalls, call>>
    /\ IF g.todo # <<>> /\ validate_request_method(handler.METHODS, "uber.method_get")
       THEN /\ req' = Activation("gen_get", "uber.method_get", req.act + 1, TRUE, 0)
            /\ gen' = g
            /\ warned' = w
            /\ last' = Outcome("generate", "pending", None, NoBody)
            /\ UNCHANGED <<index, files>>
       ELSE \* RequestError for every method left: each is warned about and
            \* slept after; then the file is written and cls(handler) built
            LET end == [g EXCEPT !.todo = <<>>, !.slept = @ + Len(g.todo)]
                dir == written(files, format_name(handler.version), end.index_data)
                new == MethodIndex_init(handler.version, dir)
            IN  /\ files' = dir
                /\ warned' = w \o [i \in 1..Len(g.todo) |-> "Failed to get method"]
                                \o new.warnings
                /\ IF new.ret.exc # ""
                   THEN /\ GenerateEnds(end, new.ret.exc)
                        /\ UNCHANGED index
                   ELSE /\ GenerateEnds(end, "MethodIndex")
                        /\ index' = new.ret.value

\* index/__init__.py:106-110  generate once process_request('uber.method_list')
\* has ended
GenerateAfterMethodList(o) ==
    LET d == data_of(o.value) IN
    IF o.outcome # "returned" \/ ~d.ok \/ d.value.kind # "dict"
    THEN /\ GenerateEnds(gen, IF o.outcome # "returned" THEN o.outcome
                              ELSE IF ~d.ok THEN d.exc ELSE "AttributeError")
         /\ UNCHANGED <<handler, initCalls, call, index, files, warned>>
    ELSE GenerateLoop([gen EXCEPT !.todo = keys_in_order(d.value.m)], warned)

\* index/__init__.py:118-129  generate once process_request('uber.method_get')
\* has ended: the rest of the try block, the except clause, sleep(delay)
GenerateAfterMethodGet(o) ==
    LET method == Head(gen.todo)
        t == try_method_data(o)
        g == [gen EXCEPT !.todo = Tail(@),
                         !.slept = @ + 1,
                         !.answered = IF answers(o) THEN @ \cup {method} ELSE @,
                         !.index_data = IF t.exc = ""
                                        THEN index_put(@, method, t.value) ELSE @]
    IN  GenerateLoop(g, IF t.exc = "" THEN warned
                        ELSE Append(warned, "Failed to get method"))

----------------------------------------------------------------------------
(* The callers of process_request *)

\* calls/__init__.py:44-47  render once process_request has ended:
\* self.response = <the handler's response>;  return self.response
RenderAfterRequest(o) ==
    /\ req' = [req EXCEPT !.active = FALSE]
    /\ UNCHANGED <<handler, initCalls>>
    /\ UNCHANGED indexVars
    /\ IF o.outcome = "returned"
       THEN /\ call' = [call EXCEPT !.response = o.value]
            /\ last' = Outcome("render", "returned", o.value, NoBody)
       ELSE /\ UNCHANGED call
            /\ last' = Outcome("render", o.outcome, None, o.exc_response)

\* process_request called on the handler directly
DirectAfterRequest(o) ==
    /\ req' = [req EXCEPT !.active = FALSE]
    /\ UNCHANGED <<handler, initCalls, call>>
    /\ UNCHANGED indexVars
    /\ last' = Outcome("process_request", o.outcome, o.value, o.exc_response)

\* process_request hands o to the code that called it
Return(o) ==
    CASE req.caller = "init_list" -> InitAfterMethodList(o)
      [] req.caller = "init_info" -> InitAfterSystemInfo(o)
      [] req.caller = "render" -> RenderAfterRequest(o)
      [] req.caller = "gen_list" -> GenerateAfterMethodList(o)
      [] req.caller = "gen_get" -> GenerateAfterMethodGet(o)
      [] OTHER -> DirectAfterRequest(o)

\* api.py:102-129  one iteration of the retry loop: the server answers r
Attempt(r) ==
    /\ req.active
    /\ UNCHANGED <<wrapVars, dflt>>
    /\ LET step == loop_body(req.i, r) IN
       /\ log' = Append(log, RequestEv(req.method, req.act, r))
                 \o (IF step.sleep > 0
                     THEN <<SleepEv(req.method, req.act, step.sleep)>> ELSE <<>>)
       /\ CASE step.next = "continue" ->
                 /\ req' = [req EXCEPT !.i = @ + 1]
                 /\ UNCHANGED <<handler, initCalls, call, last>>
                 /\ UNCHANGED indexVars
            [] step.next = "raise" ->
                 Return(Result("UpdatingTokenResponse", None, NoBody))
            [] OTHER -> Return(after_loop(r))

\* api.py:90-98  handler.process_request(method) up to the first HTTP exchange
ProcessRequest(method) ==
    /\ handler.state = "ready"
    /\ ~req.active
    /\ log' = <<>>
    /\ UNCHANGED <<handler, initCalls, call>>
    /\ UNCHANGED otherVars
    /\ IF validate_request_method(handler.METHODS, method)
       THEN /\ req' = Activation("direct", method, 1, TRUE, 0)
            /\ last' = Outcome("process_request", "pending", None, NoBody)
       ELSE /\ req' = Activation("direct", method, 1, FALSE, 0)
            /\ last' = Outcome("process_request", "RequestError", None, NoBody)

\* index/__init__.py:26-32  MethodIndex(handler)
NewMethodIndex ==
    /\ handler.state = "ready"
    /\ ~req.active
    /\ LET new == MethodIndex_init(handler.version, files) IN
       /\ warned' = new.warnings
       /\ IF new.ret.exc # ""
          THEN /\ index' = NoIndex
               /\ last' = Outcome("MethodIndex", new.ret.exc, None, NoBody)
          ELSE /\ index' = new.ret.value
               /\ last' = Outcome("MethodIndex", "returned", None, NoBody)
    /\ log' = <<>>
    /\ req' = Idle
    /\ gen' = NoGen
    /\ UNCHANGED <<handler, initCalls, call, files>>
    /\ UNCHANGED <<wrapVars, dflt>>

\* index/__init__.py:75-106  MethodIndex.generate(handler, delay, force) up
\* to the first HTTP exchange
Generate(force) ==
    /\ handler.state = "ready"
    /\ ~req.active
    /\ log' = <<>>
    /\ UNCHANGED <<handler, initCalls, call, index, files>>
    /\ UNCHANGED <<wrapVars, dflt>>
    /\ LET exists == format_name(handler.version) \in get_available_indexes(files)
           g == Generation(TRUE, force, <<>>, EmptyMap, 0, {}, "pending")
       IN  /\ warned' = IF exists THEN <<"index already exists">> ELSE <<>>
           /\ IF generate_skips(exists, force)
              THEN /\ GenerateEnds(g, "False")
              ELSE IF validate_request_method(handler.METHODS, "uber.method_list")
              THEN /\ req' = Activation("gen_list", "uber.method_list", 1, TRUE, 0)
                   /\ gen' = g
                   /\ last' = Outcome("generate", "pending", None, NoBody)
              ELSE GenerateEnds(g, "RequestError")

----------------------------------------------------------------------------
(* BaseCall *)

\* An entry of required_fields: a field name, or a collection of field names.
Flat(name) == [group |-> FALSE, names |-> {name}]
Group(names) == [group |-> TRUE, names |-> names]

RequirementUniverse == {Flat("a"), Group({"b", "c"})}
FieldNames == {"a", "b"}
CallMethods == {"client.get", "bogus.call"}
Cleaners == {"None", "int", "bool"}

CallObject(exists, method, required, data, cleaner, response) ==
    [response |-> response, method |-> method, exists |-> exists,
     cleaner |-> cleaner, required_fields |-> required, request_data |-> data]

NoCall == CallObject(FALSE, "", {}, {}, "None", None)

\* calls/__init__.py:52  set(self.required_fields) - set(self.request_data):
\* the keys of request_data are field names, so a collection is never removed.
missing_fields(required, data) ==
    {f \in required : f.group \/ ~(f.names \subseteq data)}

\* calls/__init__.py:53-56  the body of the loop, run for the first element only
check_field(field, data) ==
    IF field.group THEN (field.names \cap data) # {} ELSE FALSE

\* calls/__init__.py:49-57  validate(): the values it can return.  The loop
\* returns in its first iteration, and which element of the set difference
\* comes first is up to the set's iteration order.
validate(required, data) ==
    IF missing_fields(required, data) = {}
    THEN {TRUE}
    ELSE {check_field(f, data) : f \in missing_fields(required, data)}

\* calls/__init__.py:30,68-69  self.cleaner(cleaned) for three cleaners:
\* none, int() and bool()
apply_cleaner(cleaner, p) ==
    CASE cleaner = "int" ->
            IF p.kind \in {"int", "bool"}
            THEN [ok |-> TRUE, exc |-> "", value |-> PInt(p.n)]
            ELSE IF p.kind = "str"
            THEN IF p.s = "42"
                 THEN [ok |-> TRUE, exc |-> "", value |-> PInt(42)]
                 ELSE [ok |-> FALSE, exc |-> "ValueError", value |-> PNull]
            ELSE [ok |-> FALSE, exc |-> "TypeError", value |-> PNull]
      [] cleaner = "bool" ->
            [ok |-> TRUE, exc |-> "",
             value |-> PBool(CASE p.kind \in {"int", "bool"} -> p.n # 0
                               [] p.kind = "str" -> p.s # ""
                               [] p.kind = "dict" -> DOMAIN p.m # {}
                               [] OTHER -> FALSE)]
      [] OTHER -> [ok |-> TRUE, exc |-> "", value |-> p]

\* Mutant of typed_response: isinstance(cleaned, int) in place of the lookup
\* by exact type, so that a bool counts as an int.
typed_response_isinstance(cleaned) ==
    CASE cleaned.kind = "dict" -> "DictResponse"
      [] cleaned.kind \in {"int", "bool"} -> "IntResponse"
      [] OTHER -> "BaseResponse"

\* calls/__init__.py:71-74  {dict: DictResponse, int: IntResponse}.get(type(cleaned), BaseResponse)
typed_response(cleaned) ==
    CASE cleaned.kind = "dict" -> "DictResponse"
      [] cleaned.kind = "int" -> "IntResponse"
      [] OTHER -> "BaseResponse"

\* calls/__init__.py:64-77  clean(): the new self.response, or the exception
clean(resp, cleaner) ==
    IF resp = None
    THEN [ok |-> FALSE, exc |-> "AttributeError", value |-> None]
    ELSE IF type_of(resp) = JSON
    THEN LET d == data_of(resp) IN
         IF ~d.ok
         THEN [ok |-> FALSE, exc |-> d.exc, value |-> None]
         ELSE LET c == apply_cleaner(cleaner, d.value) IN
              IF ~c.ok
              THEN [ok |-> FALSE, exc |-> c.exc, value |-> None]
              ELSE [ok |-> TRUE, exc |-> "",
                    value |-> from_cleaned(typed_response(c.value), resp, c.value)]
    ELSE [ok |-> TRUE, exc |-> "", value |-> FileResponse(resp.response)]

\* calls/__init__.py:32-37  BaseCall(request_data, request_handler)
NewCall(method, required, data, cleaner) ==
    /\ handler.state = "ready"
    /\ ~req.active
    /\ call' = CallObject(TRUE, method, required, data, cleaner, None)
    /\ last' = Outcome("BaseCall", "returned", None, NoBody)
    /\ log' = <<>>
    /\ req' = Idle
    /\ UNCHANGED <<handler, initCalls>>
    /\ UNCHANGED otherVars

\* calls/__init__.py:49-57  call.validate()
Validate ==
    /\ call.exists
    /\ ~req.active
    /\ \E ok \in validate(call.required_fields, call.request_data) :
          last' = Outcome("validate", IF ok THEN "True" ELSE "False", None, NoBody)
    /\ log' = <<>>
    /\ req' = Idle
    /\ UNCHANGED <<handler, initCalls, call>>
    /\ UNCHANGED otherVars

\* Mutant of Render: process_request is called without looking at validate().
RenderUnchecked ==
    /\ call.exists
    /\ ~req.active
    /\ log' = <<>>
    /\ UNCHANGED <<handler, initCalls, call>>
    /\ UNCHANGED otherVars
    /\ IF (call.method \in handler.METHODS)
       THEN /\ req' = Activation("render", call.method, 1, TRUE, 0)
            /\ last' = Outcome("render", "pending", None, NoBody)
       ELSE /\ req' = Activation("render", call.method, 1, FALSE, 0)
            /\ last' = Outcome("render", "RequestError", None, NoBody)

\* calls/__init__.py:39-47,59-62 and api.py:90-98  call.render() up to the
\* first HTTP exchange
Render ==
    /\ call.exists
    /\ ~req.active
    /\ log' = <<>>
    /\ UNCHANGED <<handler, initCalls, call>>
    /\ UNCHANGED otherVars
    /\ \E ok \in validate(call.required_fields, call.request_data) :
          IF ~ok
          THEN /\ req' = Idle
               /\ last' = Outcome("render", "ValidationError", None, NoBody)
          ELSE IF validate_request_method(handler.METHODS, call.method)
          THEN /\ req' = Activation("render", call.method, 1, TRUE, 0)
               /\ last' = Outcome("render", "pending", None, NoBody)
          ELSE /\ req' = Activation("render", call.method, 1, FALSE, 0)
               /\ last' = Outcome("render", "RequestError", None, NoBody)

\* calls/__init__.py:64-77  call.clean()
Clean ==
    /\ call.exists
    /\ ~req.active
    /\ LET c == clean(call.response, call.cleaner) IN
       /\ call' = IF c.ok THEN [call EXCEPT !.response = c.value] ELSE call
       /\ last' = Outcome("clean", IF c.ok THEN "returned" ELSE c.exc, None, NoBody)
    /\ log' = <<>>
    /\ req' = Idle
    /\ UNCHANGED <<handler, initCalls>>
    /\ UNCHANGED otherVars

----------------------------------------------------------------------------
Init ==
    /\ handler = NoHandler
    /\ req = Idle
    /\ log = <<>>
    /\ initCalls = <<>>
    /\ call = NoCall
    /\ last = Outcome("none", "returned", None, NoBody)
    /\ maps = NoMaps
    /\ ints = NoInts
    /\ heap = NoObjects
    /\ dflt = NoDefault
    /\ index = NoIndex
    /\ files = EmptyMap
    /\ gen = NoGen
    /\ warned = <<>>

Next ==
    \/ Construct
    \/ \E r \in Responses : Attempt(r)
    \/ \E method \in MethodNames : ProcessRequest(method)

Spec == Init /\ [][Next]_vars

\* The handler used through call objects.
NextCall ==
    \/ Construct
    \/ \E r \in Responses : Attempt(r)
    \/ \E method \in CallMethods, required \in SUBSET RequirementUniverse,
          data \in SUBSET FieldNames, cleaner \in Cleaners :
          NewCall(method, required, data, cleaner)
    \/ Validate
    \/ Render
    \/ Clean

SpecCall == Init /\ [][NextCall]_vars

\* MethodIndex over a handler that has been constructed.  The service lists
\* its methods and describes one method with or without an 'output' field.
IndexMethodList ==
    [k \in {"uber.method_get", "client.get"} |-> "description"]
MethodData == [k \in {"description", "output"} |-> "text"]
MethodDataWithoutOutput == [k \in {"description"} |-> "text"]

IndexResponses ==
    { JsonOK(PDict(IndexMethodList)),
      JsonOK(PDict(MethodData)),
      JsonOK(PDict(MethodDataWithoutOutput)),
      JsonErr(3, "denied"),
      Html("text/html", TRUE) }

\* A schema file left by an earlier run.
StaleIndex == index_put(EmptyMap, "uber.method_list", MethodDataWithoutOutput)

\* The index directory before the run: empty, or holding schema files.
InitialDirs ==
    { [f \in names |-> StaleIndex] :
        names \in { {}, {format_name("4.6")},
                    {format_name("4.6"), format_name("4.10")},
                    {format_name("4.10"), format_name("5.0")} } }

InitIndex ==
    /\ \E version \in {"4.6", "4.10"}, withGet \in BOOLEAN :
          handler = Handler("ready",
                            DOMAIN FullMethodList
                              \cup (IF withGet THEN {"uber.method_get"} ELSE {}),
                            version, "5.0", "")
    /\ req = Idle
    /\ log = <<>>
    /\ initCalls = <<"uber.method_list", "uber.system_info">>
    /\ call = NoCall
    /\ last = Outcome("__init__", "returned", None, NoBody)
    /\ maps = NoMaps
    /\ ints = NoInts
    /\ heap = NoObjects
    /\ dflt = NoDefault
    /\ index = NoIndex
    /\ files \in InitialDirs
    /\ gen = NoGen
    /\ warned = <<>>

NextIndex ==
    \/ \E r \in IndexResponses : Attempt(r)
    \/ NewMethodIndex
    \/ \E force \in BOOLEAN : Generate(force)

SpecIndex == InitIndex /\ [][NextIndex]_vars

----------------------------------------------------------------------------
(* Reading the log *)

\* The events of the most recent activation of process_request.
ActLog == SelectSeq(log, LAMBDA e : e.act = req.act)

\* The responses that activation has received, in order.
Received == SelectSeq(ActLog, LAMBDA e : e.ev = "request")

\* A text/html response that contains 'Updating Token'.
UpdatingTokenPage(r) ==
    r \in {Html("text/html", TRUE), Html("text/html; charset=UTF-8", TRUE)}

\* The number of leading 'Updating Token' pages among the responses received.
LeadingTokens ==
    Cardinality({k \in 1..Len(Received) :
                    \A j \in 1..k : UpdatingTokenPage(Received[j].response)})

Min(a, b) == IF a < b THEN a ELSE b

\* A direct call of process_request has ended.
DirectDone == req.caller = "direct" /\ ~req.active

----------------------------------------------------------------------------
(* C1: a call of process_request with a method that is not a key of METHODS *)
(* fails with RequestError, sends no HTTP request and sleeps not once.      *)
C1_UnknownMethodRejected ==
    (req.caller = "direct" /\ req.method \notin handler.METHODS) =>
        /\ ~req.active
        /\ last.op = "process_request"
        /\ last.outcome = "RequestError"
        /\ log = <<>>

C1_Witness ==
    /\ req.caller = "direct"
    /\ req.method = "bogus.call"
    /\ last.outcome = "RequestError"

C6_VersionLookupFailureTolerated ==
    (last.op = "__init__" /\ last.outcome # "pending" /\ Len(initCalls) = 2) =>
        /\ initCalls = <<"uber.method_list", "uber.system_info">>
        /\ handler.state = "ready"
        /\ last.outcome = "returned"

----------------------------------------------------------------------------
\* A step that is a whole call of render() / clean(): no process_request is
\* under way, and the step ends as that operation.
RenderStep == ~req.active /\ last'.op = "render"
CleanStep == ~req.active /\ last'.op = "clean"

\* The requirement reading of validate(): OR within a group, AND across all.
RequirementsMet(required, data) ==
    \A f \in required : (f.names \cap data) # {}

(* C7: render() runs validate() first: when validate() returns False the    *)
(* call raises ValidationError, process_request is not invoked, no HTTP     *)
(* request is sent and the call's stored response is left as it was (None). *)
C7_ValidationBeforeRequest ==
    [][RenderStep =>
          /\ (TRUE \notin validate(call.required_fields, call.request_data))
                => last'.outcome = "ValidationError"
          /\ last'.outcome = "ValidationError" =>
                /\ FALSE \in validate(call.required_fields, call.request_data)
                /\ log' = <<>>
                /\ req' = Idle
                /\ call'.response = call.response]_vars

C7_Witness ==
    /\ last.op = "render"
    /\ last.outcome = "ValidationError"
    /\ call.response = None
    /\ log = <<>>
    /\ req.caller = "none"

(* C8: validate() returns True if and only if every flat required field is  *)
(* in the request data and every required group has a member in it.         *)
C8_ValidateIffRequirementsMet ==
    last.op = "validate" =>
        (last.outcome = "True"
            <=> RequirementsMet(call.required_fields, call.request_data))

(* C9: what a successful render() returns is the response after cleaning: a *)
(* typed wrapper built from the cleaned payload, or a File Response, never  *)
(* the raw response of the request handler.                                 *)
C9_RenderReturnsCleaned ==
    (last.op = "render" /\ last.outcome = "returned") =>
        /\ last.value = call.response
        /\ last.value.hasCleaned \/ last.value.cls = "FileResponse"

----------------------------------------------------------------------------
(* DictResponse beside a plain dict of the same data (api.py:235-297).     *)
(* Key order is not modelled: keys() and items() are read as sets and      *)
(* values() as a multiset.                                                  *)

MapKeys == {"a", "b"}
MapValues == {"x", "y"}
Mappings == UNION {[ks -> MapValues] : ks \in SUBSET MapKeys}

\* What a call of Python's dict gives: its return value and the dict afterwards.
Did(ret, after) == [ret |-> ret, after |-> after]

dict_keys(m) == Did(Ret(DOMAIN m), m)
dict_values(m) ==
    Did(Ret({<<v, Cardinality({k \in DOMAIN m : m[k] = v})>> :
                v \in {m[k] : k \in DOMAIN m}}), m)
dict_items(m) == Did(Ret({<<k, m[k]>> : k \in DOMAIN m}), m)
dict_get(m, key) == Did(IF key \in DOMAIN m THEN Ret(m[key]) ELSE RetNone, m)
dict_setitem(m, key, value) ==
    Did(RetNone, [k \in DOMAIN m \cup {key} |-> IF k = key THEN value ELSE m[k]])
dict_update(m, d) ==
    Did(RetNone, [k \in DOMAIN m \cup DOMAIN d |-> IF k \in DOMAIN d THEN d[k] ELSE m[k]])
dict_setdefault(m, key, value) ==
    IF key \in DOMAIN m
    THEN Did(Ret(m[key]), m)
    ELSE Did(Ret(value), dict_setitem(m, key, value).after)
dict_pop(m, key) ==
    IF key \in DOMAIN m
    THEN Did(Ret(m[key]), [k \in DOMAIN m \ {key} |-> m[k]])
    ELSE Did(Raise("KeyError"), m)
dict_clear(m) == Did(RetNone, EmptyMap)
dict_contains(m, item) == Did(Ret(item \in DOMAIN m), m)
dict_len(m) == Did(Ret(Cardinality(DOMAIN m)), m)
dict_eq(m, other) == Did(Ret(m = other), m)

\* api.py:188-194  self._data of a DictResponse: the dict its methods act on.
mapping_of(w) == data_of(w).value.m

\* api.py:190-194  The dict a method has acted on is self._cleaned when the
\* object has one; otherwise it is a dict decoded from the body for this one
\* call, and the object keeps nothing of it.
acted(w, did) ==
    IF w.hasCleaned THEN [w EXCEPT !.cleaned = PDict(did.after)] ELSE w

\* What a DictResponse method gives: its return value and the object afterwards.
Called(ret, self) == [self |-> self, ret |-> ret]

\* api.py:239-240
DictResponse_keys(w) ==
    LET did == dict_keys(mapping_of(w)) IN Called(did.ret, acted(w, did))
\* api.py:245-246
DictResponse_values(w) ==
    LET did == dict_values(mapping_of(w)) IN Called(did.ret, acted(w, did))
\* api.py:251-252
DictResponse_items(w) ==
    LET did == dict_items(mapping_of(w)) IN Called(did.ret, acted(w, did))
\* api.py:257-258
DictResponse_get(w, key) ==
    LET did == dict_get(mapping_of(w), key) IN Called(did.ret, acted(w, did))
\* api.py:260-261  no return statement
DictResponse_update(w, d) ==
    LET did == dict_update(mapping_of(w), d) IN Called(RetNone, acted(w, did))
\* api.py:263-264  no return statement
DictResponse_setdefault(w, key, value) ==
    LET did == dict_setdefault(mapping_of(w), key, value) IN
    Called(RetNone, acted(w, did))
\* api.py:266-270  called without a default
DictResponse_pop(w, key) ==
    LET did == dict_pop(mapping_of(w), key) IN Called(did.ret, acted(w, did))
\* api.py:275-276
DictResponse_clear(w) ==
    LET did == dict_clear(mapping_of(w)) IN Called(RetNone, acted(w, did))
\* api.py:278-279
DictResponse_setitem(w, key, value) ==
    LET did == dict_setitem(mapping_of(w), key, value) IN
    Called(RetNone, acted(w, did))
\* api.py:287-288
DictResponse_len(w) ==
    LET did == dict_len(mapping_of(w)) IN Called(did.ret, acted(w, did))
\* api.py:290-291
DictResponse_eq(w, other) ==
    LET did == dict_eq(mapping_of(w), other) IN Called(did.ret, acted(w, did))
\* api.py:296-297
DictResponse_contains(w, item) ==
    LET did == dict_contains(mapping_of(w), item) IN Called(did.ret, acted(w, did))

\* The same call made on the DictResponse and on the plain dict.
BothCalled(op, called, did) ==
    /\ maps.op # "none"
    /\ maps' = [op |-> op, wrapped |-> called.self, plain |-> did.after,
                wret |-> called.ret, pret |-> did.ret]
    /\ UNCHANGED <<handler, req, log, initCalls, call, last>>
    /\ UNCHANGED <<ints, heap, dflt, index, files, gen, warned>>

\* A DictResponse over data d, built as clean builds it (api.py:178-182,
\* calls/__init__.py:77) or directly over the response (api.py:175-176),
\* and a plain dict of the same data.
NewDictResponse(d, cleaned) ==
    /\ maps' = [op |-> "new",
                wrapped |-> IF cleaned
                            THEN from_cleaned("DictResponse",
                                              BaseResponse(JsonOK(PDict(d))), PDict(d))
                            ELSE Wrapper("DictResponse", JsonOK(PDict(d)), FALSE, PNull),
                plain |-> d, wret |-> RetNone, pret |-> RetNone]
    /\ UNCHANGED <<handler, req, log, initCalls, call, last>>
    /\ UNCHANGED <<ints, heap, dflt, index, files, gen, warned>>

NextDict ==
    \/ \E d \in Mappings, cleaned \in BOOLEAN : NewDictResponse(d, cleaned)
    \/ BothCalled("keys", DictResponse_keys(maps.wrapped), dict_keys(maps.plain))
    \/ BothCalled("values", DictResponse_values(maps.wrapped), dict_values(maps.plain))
    \/ BothCalled("items", DictResponse_items(maps.wrapped), dict_items(maps.plain))
    \/ \E k \in MapKeys :
          BothCalled("get", DictResponse_get(maps.wrapped, k), dict_get(maps.plain, k))
    \/ \E d \in Mappings :
          BothCalled("update", DictResponse_update(maps.wrapped, d),
                     dict_update(maps.plain, d))
    \/ \E k \in MapKeys, v \in MapValues :
          BothCalled("setdefault", DictResponse_setdefault(maps.wrapped, k, v),
                     dict_setdefault(maps.plain, k, v))
    \/ \E k \in MapKeys :
          BothCalled("pop", DictResponse_pop(maps.wrapped, k), dict_pop(maps.plain, k))
    \/ BothCalled("clear", DictResponse_clear(maps.wrapped), dict_clear(maps.plain))
    \/ \E k \in MapKeys, v \in MapValues :
          BothCalled("setitem", DictResponse_setitem(maps.wrapped, k, v),
                     dict_setitem(maps.plain, k, v))
    \/ BothCalled("len", DictResponse_len(maps.wrapped), dict_len(maps.plain))
    \/ \E d \in Mappings :
          BothCalled("eq", DictResponse_eq(maps.wrapped, d), dict_eq(maps.plain, d))
    \/ \E k \in MapKeys :
          BothCalled("contains", DictResponse_contains(maps.wrapped, k),
                     dict_contains(maps.plain, k))

SpecDict == Init /\ [][NextDict]_vars

\* C11: a DictResponse and a plain dict initialised with the same data stay
\* equivalent under any sequence of mapping operations: every call returns
\* the same result on both and both hold the same contents afterwards.
C11_MappingEquivalence ==
    maps.op # "none" =>
        /\ maps.wret = maps.pret
        /\ mapping_of(maps.wrapped) = maps.plain

----------------------------------------------------------------------------
(* IntResponse beside the bare int it wraps (api.py:300-433).              *)

MaxInt == 3
Ints == (0 - MaxInt)..MaxInt

\* Python's arithmetic on int operands.
Abs(a) == IF a < 0 THEN 0 - a ELSE a
FloorDiv(a, b) == IF b > 0 THEN a \div b ELSE (0 - a) \div (0 - b)
Mod(a, b) == a - b * FloorDiv(a, b)
RECURSIVE Pow(_, _)
Pow(a, e) == IF e = 0 THEN 1 ELSE a * Pow(a, e - 1)
RECURSIVE BitAnd(_, _)
BitAnd(a, b) ==
    IF a = 0 \/ b = 0 THEN 0
    ELSE IF a = 0 - 1 THEN b
    ELSE IF b = 0 - 1 THEN a
    ELSE 2 * BitAnd(a \div 2, b \div 2) + (a % 2) * (b % 2)
RECURSIVE BitXor(_, _)
BitXor(a, b) ==
    IF a = 0 THEN b
    ELSE IF b = 0 THEN a
    ELSE IF a = 0 - 1 THEN 0 - b - 1
    ELSE IF b = 0 - 1 THEN 0 - a - 1
    ELSE 2 * BitXor(a \div 2, b \div 2) + (IF a % 2 = b % 2 THEN 0 ELSE 1)
BitOr(a, b) == BitAnd(a, b) + BitXor(a, b)

\* A float result, kept as an exact fraction.
Float(num, den) == Ret(<<"float", num, den>>)

\* The Python expression  a <op> b  on two ints.
int_binary(op, a, b) ==
    CASE op = "+" -> Ret(a + b)
      [] op = "-" -> Ret(a - b)
      [] op = "*" -> Ret(a * b)
      [] op = "//" -> IF b = 0 THEN Raise("ZeroDivisionError") ELSE Ret(FloorDiv(a, b))
      [] op = "%" -> IF b = 0 THEN Raise("ZeroDivisionError") ELSE Ret(Mod(a, b))
      [] op = "**" -> IF b >= 0 THEN Ret(Pow(a, b))
                      ELSE IF a = 0 THEN Raise("ZeroDivisionError")
                      ELSE Float(1, Pow(a, 0 - b))
      [] op = "&" -> Ret(BitAnd(a, b))
      [] op = "|" -> Ret(BitOr(a, b))
      [] op = "^" -> Ret(BitXor(a, b))
      [] op = "<<" -> IF b < 0 THEN Raise("ValueError") ELSE Ret(a * Pow(2, b))
      [] op = ">>" -> IF b < 0 THEN Raise("ValueError") ELSE Ret(a \div Pow(2, b))
      [] op = "==" -> Ret(a = b)
      [] op = "<" -> Ret(a < b)

\* Python's divmod(a, b) on two ints: the pair (q, r) with a = q*b + r and r
\* between 0 and b.
int_divmod(a, b) ==
    IF b = 0 THEN Raise("ZeroDivisionError")
    ELSE Ret(CHOOSE qr \in ((0 - Abs(a) - 1)..(Abs(a) + 1)) \X ((0 - Abs(b))..Abs(b)) :
                /\ a = qr[1] * b + qr[2]
                /\ b > 0 => (0 <= qr[2] /\ qr[2] < b)
                /\ b < 0 => (b < qr[2] /\ qr[2] <= 0))

\* abs(a), -a, +a, ~a, int(a), bool(a) and the numeric attributes of an int.
int_unary(op, a) ==
    CASE op = "abs" -> Ret(Abs(a))
      [] op = "neg" -> Ret(0 - a)
      [] op = "pos" -> Ret(a)
      [] op = "invert" -> Ret(0 - a - 1)
      [] op = "int" -> Ret(a)
      [] op = "bool" -> Ret(a # 0)
      [] op = "numerator" -> Ret(a)
      [] op = "denominator" -> Ret(1)
      [] op = "real" -> Ret(a)
      [] op = "imag" -> Ret(0)

BinaryOps == {"+", "-", "*", "//", "%", "**", "&", "|", "^", "<<", ">>"}
Comparisons == {"==", "<"}
UnaryOps == {"abs", "neg", "pos", "invert"}
Properties == {"numerator", "denominator", "real", "imag"}

\* api.py:188-194  self._data of an IntResponse
int_of(w) == data_of(w).value.n

\* api.py:340-424  w <op> other : __eq__, __lt__, __add__, __sub__, __mul__,
\* __floordiv__, __mod__, __pow__, __and__, __or__, __xor__, __lshift__,
\* __rshift__
IntResponse_binary(w, op, other) == int_binary(op, int_of(w), other)

\* api.py:348, 353-354, 358, 369-370, 381-382, 387-388, 407, 411, 415,
\* 420-421, 426-427  other <op> w : __radd__ = __add__, __rsub__,
\* __rmul__ = __mul__, __rfloordiv__, __rmod__, __rpow__, __rand__ = __and__,
\* __ror__ = __or__, __rxor__ = __xor__, __rlshift__, __rrshift__
IntResponse_reflected(w, op, other) ==
    IF op \in {"+", "*", "&", "|", "^"}
    THEN IntResponse_binary(w, op, other)
    ELSE int_binary(op, other, int_of(w))

\* A pair of two results; the first exception raised propagates.
Pair(q, r) ==
    IF q.exc # "" THEN q ELSE IF r.exc # "" THEN r ELSE Ret(<<q.value, r.value>>)

\* api.py:399-400  __divmod__: self // other, self % other
IntResponse_divmod(w, other) ==
    Pair(IntResponse_binary(w, "//", other), IntResponse_binary(w, "%", other))

\* api.py:402-403  __rdivmod__: other // self, other % self
IntResponse_rdivmod(w, other) ==
    Pair(IntResponse_reflected(w, "//", other), IntResponse_reflected(w, "%", other))

\* api.py:390-397, 429-430  __abs__, __neg__, __pos__, __invert__
IntResponse_unary(w, op) ==
    CASE op = "abs" -> Ret(Abs(int_of(w)))
      [] op = "neg" -> Ret(0 - int_of(w))
      [] op = "pos" -> Ret(int_of(w))
      [] op = "invert" -> Ret(0 - int_of(w) - 1)

\* api.py:302-316  numerator, denominator, real, imag
IntResponse_property(w, name) ==
    CASE name = "numerator" -> Ret(int_of(w))
      [] name = "denominator" -> Ret(1)
      [] name = "real" -> Ret(int_of(w))
      [] name = "imag" -> Ret(0)

\* api.py:327-329  __int__ (and __index__)
IntResponse_int(w) == Ret(int_of(w))

\* bool(w).  The class defines __nonzero__ (api.py:432-433), the Python 2
\* name, and neither __bool__ nor __len__ (api.py:173-232, 300-433), which
\* are what Python 3 consults; the package is Python 3 code (api.py:228,
\* index/__init__.py:29-31), so bool(w) is the default truth of an object.
IntResponse_bool(w) == Ret(TRUE)

\* api.py:178-182, calls/__init__.py:72-73  the IntResponse clean builds over n
NewIntResponse(n) ==
    from_cleaned("IntResponse", BaseResponse(JsonOK(PInt(n))), PInt(n))

\* One operation evaluated on an IntResponse over n and on the int n.
Evaluated(op, w, other, wret, iret) ==
    /\ ints' = [op |-> op, wrapped |-> w, wret |-> wret,
                other |-> other, iret |-> iret]
    /\ UNCHANGED <<handler, req, log, initCalls, call, last>>
    /\ UNCHANGED <<maps, heap, dflt, index, files, gen, warned>>

\* w <op> m, m <op> w, divmod(w, m), divmod(m, w), abs(w) -w +w ~w, the
\* numeric attributes, int(w) and bool(w), each beside the same on the int n.
NextInt ==
    \/ \E op \in BinaryOps \cup Comparisons, n \in Ints, m \in Ints :
          Evaluated(op, NewIntResponse(n), m,
                    IntResponse_binary(NewIntResponse(n), op, m), int_binary(op, n, m))
    \/ \E op \in BinaryOps, n \in Ints, m \in Ints :
          Evaluated("r" \o op, NewIntResponse(n), m,
                    IntResponse_reflected(NewIntResponse(n), op, m), int_binary(op, m, n))
    \/ \E n \in Ints, m \in Ints :
          Evaluated("divmod", NewIntResponse(n), m,
                    IntResponse_divmod(NewIntResponse(n), m), int_divmod(n, m))
    \/ \E n \in Ints, m \in Ints :
          Evaluated("rdivmod", NewIntResponse(n), m,
                    IntResponse_rdivmod(NewIntResponse(n), m), int_divmod(m, n))
    \/ \E op \in UnaryOps, n \in Ints :
          Evaluated(op, NewIntResponse(n), 0,
                    IntResponse_unary(NewIntResponse(n), op), int_unary(op, n))
    \/ \E name \in Properties, n \in Ints :
          Evaluated(name, NewIntResponse(n), 0,
                    IntResponse_property(NewIntResponse(n), name), int_unary(name, n))
    \/ \E n \in Ints :
          Evaluated("int", NewIntResponse(n), 0,
                    IntResponse_int(NewIntResponse(n)), int_unary("int", n))
    \/ \E n \in Ints :
          Evaluated("bool", NewIntResponse(n), 0,
                    IntResponse_bool(NewIntResponse(n)), int_unary("bool", n))

SpecInt == Init /\ [][NextInt]_vars

\* C12: for every integer n wrapped by an IntResponse and every integer
\* operand m in the range, each operation the wrapper implements (arithmetic,
\* divmod, bitwise, their reflected forms, abs/neg/pos/invert, ==, <, int(),
\* bool(), numerator/denominator/real/imag) gives the same result as the same
\* operation on the bare integer n.
C12_IntegerEquivalence ==
    ints.op # "none" => ints.wret = ints.iret

----------------------------------------------------------------------------
(* MethodIndex: construction and generation (index/__init__.py)            *)

\* A step that is a call of MethodIndex(handler) / of MethodIndex.generate.
NewMethodIndexStep == ~req.active /\ last'.op = "MethodIndex"
GenerateStep == ~req.active /\ last'.op = "generate"
\* A step in which generate writes the schema file and returns the new index.
GenerateWrites == gen.active /\ ~gen'.active /\ gen'.result = "MethodIndex"

WantedName == format_name(handler.version)
IndexedMethods(index_data) == UNION {DOMAIN index_data[g] : g \in DOMAIN index_data}

\* C13: when a MethodIndex is constructed for a handler whose version has no
\* exactly matching schema file (and some schema file exists), construction
\* completes, a warning is emitted and the file with the highest version,
\* compared as dotted integer tuples, is used; when an exact match exists,
\* that file is used and no warning is emitted.
C13_ConstructionFallsBackToLatest ==
    [][NewMethodIndexStep =>
          IF WantedName \in DOMAIN files
          THEN /\ index'.exists
               /\ index'.index_name = WantedName
               /\ warned' = <<>>
          ELSE files # EmptyMap =>
               /\ index'.exists
               /\ warned' # <<>>
               /\ index'.index_name \in DOMAIN files
               /\ \A g \in DOMAIN files :
                     ~TupleLess(version_key(stem(index'.index_name)),
                                version_key(stem(g)))]_vars

\* C14: when generate has written the schema file, the persisted index holds
\* exactly the methods of the method list whose metadata query succeeded,
\* each under its module and without the 'output' field; a failed query is
\* warned about and does not abort generation.
C14_IndexHoldsQueriedMethods ==
    [][GenerateWrites =>
          LET index_data == files'[WantedName] IN
          /\ IndexedMethods(index_data) = gen'.answered
          /\ \A g \in DOMAIN index_data : \A k \in DOMAIN index_data[g] :
                /\ module_of(k) = g
                /\ "output" \notin DOMAIN index_data[g][k]]_vars

\* C15: generate called with force unset for a handler version whose schema
\* file exists returns False without sending a request, without sleeping and
\* without writing or changing a schema file; with force set it goes on to
\* query the method list, and the file it writes replaces the old one: it
\* holds the methods of this run only, and no other file changes.
C15_GenerateSkipsUnlessForced ==
    [][/\ (GenerateStep /\ WantedName \in DOMAIN files /\ ~gen'.force) =>
             /\ gen'.result = "False"
             /\ ~req'.active
             /\ log' = <<>>
             /\ gen'.slept = 0
             /\ files' = files
       /\ (GenerateStep /\ WantedName \in DOMAIN files /\ gen'.force) =>
             /\ gen'.result # "False"
             /\ validate_request_method(handler.METHODS, "uber.method_list") =>
                   (req'.active /\ req'.method = "uber.method_list")
       /\ GenerateWrites =>
             /\ IndexedMethods(files'[WantedName]) \subseteq gen'.answered
             /\ \A f \in DOMAIN files \ {WantedName} :
                   f \in DOMAIN files' /\ files'[f] = files[f]]_vars

\* generate has returned False for an existing file without force.
C15_Witness ==
    /\ last.op = "generate"
    /\ gen.result = "False"
    /\ ~gen.force
    /\ WantedName \in DOMAIN files
    /\ log = <<>>

----------------------------------------------------------------------------
(* Response objects by identity: BaseResponse(response) and                *)
(* BaseResponse._from_cleaned (api.py:173-194).                            *)

MaxObjects == 3

\* Transport responses and cleaned values the objects are built from.
HeapResponses ==
    { JsonOK(PInt(5)), JsonOK(PStr("42")), JsonOK(PDict(SystemInfo)),
      Html("text/html", FALSE) }
CleanedValues == {PInt(42), PDict(EmptyMap)}

\* The heap: the objects by identity (their position in objs), and what was
\* asked for: raw pairs an object built by the constructor with the transport
\* response given to it, subst pairs an object handed back by _from_cleaned
\* with the cleaned value given.
Heap(objs, raw, subst) == [objs |-> objs, raw |-> raw, subst |-> subst]

\* What _from_cleaned gives: the objects afterwards and the one handed back.
Built(objs, ref) == [objs |-> objs, ref |-> ref]

\* Mutant of BaseResponse_from_cleaned: _cleaned is set on the response
\* passed in, which is handed back.
BaseResponse_from_cleaned_in_place(objs, i, cls, cleaned) ==
    Built([objs EXCEPT ![i] = Wrapper(cls, objs[i].response, TRUE, cleaned)], i)

\* api.py:178-182  resp = cls(response._response); resp._cleaned = cleaned;
\* return resp.  objs[i] is the object passed as response.
BaseResponse_from_cleaned(objs, i, cls, cleaned) ==
    Built(Append(objs, from_cleaned(cls, objs[i], cleaned)), Len(objs) + 1)

\* api.py:175-176  BaseResponse(response)
NewResponse(r) ==
    /\ Len(heap.objs) < MaxObjects
    /\ heap' = Heap(Append(heap.objs, BaseResponse(r)),
                    heap.raw \cup {<<Len(heap.objs) + 1, r>>}, heap.subst)
    /\ UNCHANGED <<handler, req, log, initCalls, call, last>>
    /\ UNCHANGED <<maps, ints, dflt, index, files, gen, warned>>

\* api.py:178-182, calls/__init__.py:71-77  cls._from_cleaned(objs[i], cleaned)
\* with the class clean picks for the cleaned value
FromCleaned(i, cleaned) ==
    /\ Len(heap.objs) < MaxObjects
    /\ i \in DOMAIN heap.objs
    /\ LET built == BaseResponse_from_cleaned(heap.objs, i, typed_response(cleaned),
                                              cleaned)
       IN  heap' = Heap(built.objs, heap.raw,
                        heap.subst \cup {<<built.ref, cleaned>>})
    /\ UNCHANGED <<handler, req, log, initCalls, call, last>>
    /\ UNCHANGED <<maps, ints, dflt, index, files, gen, warned>>

NextResp ==
    \/ \E r \in HeapResponses : NewResponse(r)
    \/ \E i \in 1..MaxObjects, cleaned \in CleanedValues : FromCleaned(i, cleaned)

SpecResp == Init /\ [][NextResp]_vars

\* C16: for every response object, _data is the substituted cleaned value
\* when the object was built by _from_cleaned, and otherwise the 'data' field
\* of the decoded JSON body (reading it raises when the body is not JSON);
\* so an object built by the constructor is still in the raw state after
\* cleaned responses have been built from it.
C16_DataOfRawAndCleaned ==
    /\ \A p \in heap.subst :
          /\ data_of(heap.objs[p[1]]).ok
          /\ data_of(heap.objs[p[1]]).value = p[2]
    /\ \A p \in heap.raw :
          /\ ~heap.objs[p[1]].hasCleaned
          /\ IF p[2].decodes
             THEN /\ data_of(heap.objs[p[1]]).ok
                  /\ data_of(heap.objs[p[1]]).value = p[2].data
             ELSE ~data_of(heap.objs[p[1]]).ok

\* A raw response whose body's data is 5 and a cleaned response built from
\* it that reads 42.
C16_Witness ==
    \E p \in heap.raw, q \in heap.subst :
        /\ heap.objs[q[1]].response = heap.objs[p[1]].response
        /\ data_of(heap.objs[p[1]]).value = PInt(5)
        /\ data_of(heap.objs[q[1]]).value = PInt(42)

----------------------------------------------------------------------------
(* The default request handler (api.py:28, 451-464) and the handler of a   *)
(* call object (calls/__init__.py:32-37).                                  *)

\* RequestHandler objects, and the values that are no RequestHandler.
HandlerObjects == {"h1", "h2", "h3", "h4"}
OtherValues == {"None", "url"}

\* api.py:451-455
get_default_request_handler(current) ==
    IF current = "None" THEN Raise("Exception") ELSE Ret(current)

\* Mutant of set_default_request_handler: the global is assigned before the
\* isinstance test.
set_default_request_handler_unchecked(current, request_handler) ==
    IF request_handler \notin HandlerObjects
    THEN [handler |-> request_handler, exc |-> "TypeError"]
    ELSE [handler |-> request_handler, exc |-> ""]

\* api.py:458-464  the exception raised, if any, and the default afterwards
set_default_request_handler(current, request_handler) ==
    IF request_handler \notin HandlerObjects
    THEN [handler |-> current, exc |-> "TypeError"]
    ELSE [handler |-> request_handler, exc |-> ""]

\* calls/__init__.py:32-37  request_handler or get_default_request_handler()
BaseCall_init(current, request_handler) ==
    IF request_handler # "None"
    THEN Ret(request_handler)
    ELSE get_default_request_handler(current)

\* One use of the default handler.
DefaultStep(d) ==
    /\ dflt' = d
    /\ UNCHANGED <<handler, req, log, initCalls, call, last>>
    /\ UNCHANGED <<maps, ints, heap, index, files, gen, warned>>

NextDefault ==
    \* set_default_request_handler(x)
    \/ \E x \in HandlerObjects \cup OtherValues :
          LET r == set_default_request_handler(dflt.handler, x) IN
          DefaultStep(Default(r.handler, "set", x,
                              IF r.exc = "" THEN "returned" ELSE r.exc, "None",
                              dflt.call_handler,
                              IF x \in HandlerObjects THEN x ELSE dflt.set))
    \* get_default_request_handler()
    \/ LET r == get_default_request_handler(dflt.handler) IN
       DefaultStep(Default(dflt.handler, "get", "None",
                           IF r.exc = "" THEN "returned" ELSE r.exc,
                           IF r.exc = "" THEN r.value ELSE "None",
                           dflt.call_handler, dflt.set))
    \* BaseCall(request_handler=x), x a handler or None
    \/ \E x \in HandlerObjects \cup {"None"} :
          LET r == BaseCall_init(dflt.handler, x) IN
          DefaultStep(Default(dflt.handler, "call", x,
                              IF r.exc = "" THEN "returned" ELSE r.exc, "None",
                              IF r.exc = "" THEN r.value ELSE dflt.call_handler,
                              dflt.set))

SpecDefault == Init /\ [][NextDefault]_vars

\* C17: across any sequence of get/set operations on the default request
\* handler, get raises until a set has succeeded and afterwards returns the
\* most recently set handler; set given a value that is not a RequestHandler
\* raises TypeError and leaves the default unchanged; a call object built
\* without an explicit handler uses the current default and fails at
\* construction when none is set.
C17_DefaultHandler ==
    [][/\ dflt'.op = "get" =>
             IF dflt.set = "None"
             THEN dflt'.outcome = "Exception"
             ELSE dflt'.outcome = "returned" /\ dflt'.value = dflt.set
       /\ (dflt'.op = "set" /\ dflt'.arg \notin HandlerObjects) =>
             /\ dflt'.outcome = "TypeError"
             /\ dflt'.handler = dflt.handler
       /\ (dflt'.op = "set" /\ dflt'.arg \in HandlerObjects) =>
             /\ dflt'.outcome = "returned"
             /\ dflt'.handler = dflt'.arg
       /\ (dflt'.op = "call" /\ dflt'.arg = "None") =>
             IF dflt.set = "None"
             THEN /\ dflt'.outcome = "Exception"
                  /\ dflt'.call_handler = dflt.call_handler
             ELSE /\ dflt'.outcome = "returned"
                  /\ dflt'.call_handler = dflt.set]_vars

\* After h1 and then h2 were set and a set of a non-handler was refused, a
\* call object built without a handler has got h2.
C17_Witness ==
    /\ dflt.op = "call"
    /\ dflt.arg = "None"
    /\ dflt.outcome = "returned"
    /\ dflt.call_handler = "h2"
    /\ dflt.set = "h2"

====
